---- MODULE Spec2Model ----
(***************************************************************************)
(* A model of the ledgeknaw document catalog: the catalog store (db.rs),   *)
(* the synchronization engine and the resolver of DocumentService          *)
(* (state.rs), together with the filesystem they reconcile against.        *)
(***************************************************************************)
EXTENDS Integers, Sequences, FiniteSets, TLC

\* ------------------------------------------------------------------ bounds

\* Identifiers the store and the walker can still hand out (uuid_generate, Uuid::new_v4).
MaxId == 7

\* Number of changes made to the filesystem from outside in one run.
MaxFsChanges == 3

\* Number of store API calls in one run of the store specification.
MaxCalls == 4

\* ------------------------------------------------------------ value spaces

\* SQL NULL / Option::None for an identifier column and for a text column.
NoId == 0
NoStr == "<null>"

Ids == 1..MaxId

\* The filesystem universe: two root directories, one with a file and a
\* subdirectory holding a second file.
DirPaths == {"/A", "/A/s", "/B"}
FilePaths == {"/A/f.md", "/A/s/g.md"}
AllPaths == DirPaths \cup FilePaths

\* The containing directory of a path ("/" for a top-level directory).
ParentOf(p) ==
    CASE p = "/A/f.md" -> "/A"
      [] p = "/A/s" -> "/A"
      [] p = "/A/s/g.md" -> "/A/s"
      [] OTHER -> "/"

\* The last component of a path.
FileName(p) ==
    CASE p = "/A/f.md" -> "f.md"
      [] p = "/A/s/g.md" -> "g.md"
      [] p = "/A/s" -> "s"
      [] p = "/A" -> "A"
      [] p = "/B" -> "B"
      [] OTHER -> p

RECURSIVE Under(_, _)
\* p is root or lies below it.
Under(p, root) ==
    IF p = root THEN TRUE
    ELSE IF p = "/" THEN FALSE
    ELSE Under(ParentOf(p), root)

\* A filesystem state is closed under containment.
FsValid(f) == \A p \in f : ParentOf(p) = "/" \/ ParentOf(p) \in f

\* Front matter of the documents on disk (title, custom id).
MetaTitle(p) == IF p = "/A/f.md" THEN "F" ELSE NoStr
MetaCustomId(p) == IF p = "/A/f.md" THEN "note" ELSE NoStr

VARIABLES
    fs,           \* the paths that exist on the filesystem
    directories,  \* DocumentService.directories: the alias/path pairs, in iteration order
    dirs,         \* table directories
    docs,         \* table documents
    nextId,       \* the next fresh identifier
    allowed,      \* the sync passes that may run
    pc,           \* per pass: its position in sync()
    full_paths,   \* per pass: the canonical paths of step 2
    file_paths,   \* per pass: the document paths still to probe
    cur,          \* per pass: the path whose probe failed, about to be removed
    idx,          \* per pass: the index of the next root to walk
    result,       \* per pass: what sync() returns
    obs,          \* per pass: what an observer records about the pass
    last,         \* the outcome of the last completed pass
    ret,          \* the outcome of the last store or resolver call
    calls,        \* store and resolver calls made so far
    changes,      \* changes made to the filesystem so far
    rlock,        \* the passes that hold a read guard on directories
    writer,       \* the task that mutates directories, and its write guard
    walk          \* per pass: where the walker stands in the tree of the current root

vars == <<fs, directories, dirs, docs, nextId, allowed, pc, full_paths, file_paths,
          cur, idx, result, obs, last, ret, calls, changes, rlock, writer, walk>>

\* ------------------------------------------------------- the catalog store

\* The catalog as a value: both tables and the identifier supply. ok tells
\* whether the last statement succeeded.
Cat(d, c, n) == [dirs |-> d, docs |-> c, next |-> n, ok |-> TRUE]

\* Schema: directories.path is unique.
PathTaken(c, path) == \E d \in c.dirs : d.path = path

\* Schema: directories.parent is null or references directories.id.
ParentMissing(c, parent) == parent # NoId /\ ~ \E d \in c.dirs : d.id = parent

\* Schema: documents.id is the primary key, documents.path is unique and so
\* is documents.custom_id where it is not null.
DocumentConflict(c, doc) ==
    \E e \in c.docs :
        \/ e.id = doc.id
        \/ e.path = doc.path
        \/ doc.custom_id # NoStr /\ e.custom_id = doc.custom_id

\* Schema: documents.directory references directories.id.
DirectoryMissing(c, directory) == ~ \E d \in c.dirs : d.id = directory

\* An insert that reports no constraint violation and inserts nothing on one.
insert_directory_ignore(c, path, name, parent) ==
    IF PathTaken(c, path) \/ ParentMissing(c, parent)
    THEN [c EXCEPT !.ok = TRUE]
    ELSE [c EXCEPT !.dirs = @ \cup {[id |-> c.next, path |-> path,
                                      name |-> name, parent |-> parent]},
                   !.next = @ + 1,
                   !.ok = TRUE]

\* An insert that writes its row whether or not the parent exists.
insert_directory_unchecked(c, path, name, parent) ==
    IF PathTaken(c, path)
    THEN [c EXCEPT !.ok = FALSE]
    ELSE [c EXCEPT !.dirs = @ \cup {[id |-> c.next, path |-> path,
                                      name |-> name, parent |-> parent]},
                   !.next = @ + 1,
                   !.ok = TRUE]

\* An insert that writes its row although the path is taken.
insert_directory_duplicate(c, path, name, parent) ==
    IF ParentMissing(c, parent)
    THEN [c EXCEPT !.ok = FALSE]
    ELSE [c EXCEPT !.dirs = @ \cup {[id |-> c.next, path |-> path,
                                      name |-> name, parent |-> parent]},
                   !.next = @ + 1,
                   !.ok = TRUE]

\* INSERT INTO directories(path, name, parent) ... RETURNING *: the id is
\* generated; a constraint violation is an error and inserts nothing.
insert_directory(c, path, name, parent) ==
    IF PathTaken(c, path) \/ ParentMissing(c, parent)
    THEN [c EXCEPT !.ok = FALSE]
    ELSE [c EXCEPT !.dirs = @ \cup {[id |-> c.next, path |-> path,
                                      name |-> name, parent |-> parent]},
                   !.next = @ + 1,
                   !.ok = TRUE]

\* An insert that overwrites the row of the same id (ON CONFLICT (id) DO UPDATE).
insert_document_upsert(c, doc) ==
    IF \E e \in c.docs : e.id = doc.id
    THEN [c EXCEPT !.docs = {e \in @ : e.id # doc.id} \cup {doc}, !.ok = TRUE]
    ELSE IF DocumentConflict(c, doc) THEN [c EXCEPT !.ok = TRUE]
    ELSE IF DirectoryMissing(c, doc.directory) THEN [c EXCEPT !.ok = FALSE]
    ELSE [c EXCEPT !.docs = @ \cup {doc}, !.ok = TRUE]

\* An insert that ignores a conflict on the id alone (ON CONFLICT (id) DO
\* NOTHING): any other uniqueness conflict is an error.
insert_document_on_id(c, doc) ==
    IF \E e \in c.docs : e.id = doc.id THEN [c EXCEPT !.ok = TRUE]
    ELSE IF DocumentConflict(c, doc) THEN [c EXCEPT !.ok = FALSE]
    ELSE IF DirectoryMissing(c, doc.directory) THEN [c EXCEPT !.ok = FALSE]
    ELSE [c EXCEPT !.docs = @ \cup {doc}, !.ok = TRUE]

\* INSERT INTO documents VALUES(...) ON CONFLICT DO NOTHING: a conflict with an
\* existing row inserts nothing and is no error (the row is never written,
\* so its reference is never checked); without one, a missing directory is
\* an error.
insert_document(c, doc) ==
    IF DocumentConflict(c, doc) THEN [c EXCEPT !.ok = TRUE]
    ELSE IF DirectoryMissing(c, doc.directory) THEN [c EXCEPT !.ok = FALSE]
    ELSE [c EXCEPT !.docs = @ \cup {doc}, !.ok = TRUE]

\* SELECT path FROM documents WHERE id = $1
get_document_path(c, id) ==
    IF \E e \in c.docs : e.id = id
    THEN (CHOOSE e \in c.docs : e.id = id).path
    ELSE NoStr

\* SELECT path FROM documents WHERE custom_id = $1
get_document_path_by_custom_id(c, custom_id) ==
    IF custom_id # NoStr /\ \E e \in c.docs : e.custom_id = custom_id
    THEN (CHOOSE e \in c.docs : e.custom_id = custom_id).path
    ELSE NoStr

\* SELECT path FROM directories WHERE parent IS NULL
list_root_paths(c) == {d.path : d \in {x \in c.dirs : x.parent = NoId}}

\* SELECT * FROM directories WHERE path = $1 (the empty set: no row)
get_dir_by_path(c, path) == {d \in c.dirs : d.path = path}

\* SELECT * FROM directories WHERE path = $1 AND parent IS NULL
get_root_by_path(c, path) == {d \in c.dirs : d.path = path /\ d.parent = NoId}

\* SELECT * FROM documents WHERE file_name = ANY($1) AND directory = $2
list_existing(c, directory, file_names) ==
    {e \in c.docs : e.file_name \in file_names /\ e.directory = directory}

RECURSIVE Descendants(_, _)
\* The directories that reference one of ids, directly or through others.
Descendants(ds, ids) ==
    LET more == {d.id : d \in {x \in ds : x.parent \in ids}} \ ids
    IN IF more = {} THEN ids ELSE Descendants(ds, ids \cup more)

\* Deleting directory rows deletes the rows that reference them.
CascadeDelete(c, ids) ==
    LET gone == Descendants(c.dirs, ids)
    IN [c EXCEPT !.dirs = {d \in @ : d.id \notin gone},
                 !.docs = {e \in @ : e.directory \notin gone},
                 !.ok = TRUE]

\* A delete that takes the row and leaves the rows that reference it.
remove_dir_row_only(c, path) ==
    [c EXCEPT !.dirs = {d \in @ : d.path # path}, !.ok = TRUE]

\* DELETE FROM directories WHERE path = $1
remove_dir(c, path) ==
    CascadeDelete(c, {d.id : d \in {x \in c.dirs : x.path = path}})

\* DELETE FROM documents WHERE path = $1
remove_file(c, path) ==
    [c EXCEPT !.docs = {e \in @ : e.path # path}, !.ok = TRUE]

\* A row of DirectoryEntry built from a directory row.
DirectoryEntryOf(d) ==
    [id |-> d.id, parent |-> d.parent, name |-> d.name, type |-> "d",
     title |-> NoStr, custom_id |-> NoStr]

\* A row of DirectoryEntry built from a document row.
DocumentEntryOf(e) ==
    [id |-> e.id, parent |-> e.directory, name |-> e.file_name, type |-> "f",
     title |-> e.title, custom_id |-> e.custom_id]

\* An ordering by parent, ascending: PostgreSQL then puts the nulls last.
OrderByParentDesc_Ascending(S) ==
    {s \in [1..Cardinality(S) -> S] :
        /\ \A i, j \in DOMAIN s : i # j => s[i] # s[j]
        /\ \A i, j \in DOMAIN s :
               i < j => \/ s[j].parent = NoId
                        \/ s[i].parent # NoId /\ s[i].parent <= s[j].parent}

\* ORDER BY parent DESC: PostgreSQL sorts a null as larger than every value,
\* so descending puts the nulls first; rows of equal parent come in any order.
OrderByParentDesc(S) ==
    {s \in [1..Cardinality(S) -> S] :
        /\ \A i, j \in DOMAIN s : i # j => s[i] # s[j]
        /\ \A i, j \in DOMAIN s :
               i < j => \/ s[i].parent = NoId
                        \/ s[j].parent # NoId /\ s[i].parent >= s[j].parent}

\* The rows of the query when the dirs branch joins every directory, not
\* only the roots.
list_roots_with_entries_deep(c) ==
    LET roots == {d \in c.dirs : d.parent = NoId}
        in_roots == {e \in c.docs : \E r \in roots : e.directory = r.id}
        below == {d \in c.dirs : \E r \in c.dirs : d.parent = r.id}
    IN OrderByParentDesc({DocumentEntryOf(e) : e \in in_roots}
                         \cup {DirectoryEntryOf(d) : d \in below}
                         \cup {DirectoryEntryOf(d) : d \in roots})

\* db.rs 153-178: the roots, the documents whose directory is a root and the
\* directories whose parent is a root, UNION (a set: no row twice) of the
\* three, ORDER BY parent DESC. The value is the set of sequences the query
\* can return.
list_roots_with_entries(c) ==
    LET roots == {d \in c.dirs : d.parent = NoId}
        in_roots == {e \in c.docs : \E r \in roots : e.directory = r.id}
        below == {d \in c.dirs : \E r \in roots : d.parent = r.id}
    IN OrderByParentDesc({DocumentEntryOf(e) : e \in in_roots}
                         \cup {DirectoryEntryOf(d) : d \in below}
                         \cup {DirectoryEntryOf(d) : d \in roots})

\* ------------------------------------------- collaborators of the service

\* Path::canonicalize: the absolute path a configured path stands for, or
\* NoStr (an Err) when it does not exist. "/B/." names the directory "/B".
canonicalize(raw, f) ==
    LET target == IF raw = "/B/." THEN "/B" ELSE raw
    IN IF target \in f THEN target ELSE NoStr

\* A probe that never reports a missing file.
metadata_always_ok(path, f) == TRUE

\* tokio::fs::metadata(path) is Ok
metadata_ok(path, f) == path \in f

\* DocumentDb::trim_roots: remove every root whose path is not among paths.
trim_roots(c, paths) ==
    CascadeDelete(c, {d.id : d \in {x \in c.dirs : x.path \in list_root_paths(c) \ paths
                                                    /\ x.parent = NoId}})

\* DocumentDb::get_all_file_paths: the path of every document.
get_all_file_paths(c) == {e.path : e \in c.docs}

\* DocumentDb::remove_file_by_path
remove_file_by_path(c, path) == remove_file(c, path)

\* The order in which the walker visits a tree: a directory before its content.
WalkOrder == <<"/A", "/A/f.md", "/A/s", "/A/s/g.md", "/B">>

\* The document the walker builds for a file it found.
NewDocument(c, path, directory) ==
    [id |-> c.next, file_name |-> FileName(path), directory |-> directory,
     path |-> path, title |-> MetaTitle(path), custom_id |-> MetaCustomId(path),
     created_at |-> 0, updated_at |-> 0]

\* One entry of the walk: register the root, a subdirectory or a document
\* unless the catalog has it already. stmt tells whether a row was written.
WalkEntry(c, p, root, alias) ==
    IF p = root THEN
        IF get_root_by_path(c, p) # {} THEN [cat |-> c, stmt |-> FALSE]
        ELSE [cat |-> insert_directory(c, p, alias, NoId), stmt |-> TRUE]
    ELSE IF get_dir_by_path(c, ParentOf(p)) = {} THEN
        [cat |-> [c EXCEPT !.ok = FALSE], stmt |-> FALSE]
    ELSE
        LET parent == CHOOSE d \in get_dir_by_path(c, ParentOf(p)) : TRUE
        IN IF p \in DirPaths THEN
               IF get_dir_by_path(c, p) # {} THEN [cat |-> c, stmt |-> FALSE]
               ELSE [cat |-> insert_directory(c, p, FileName(p), parent.id),
                     stmt |-> TRUE]
           ELSE
               IF list_existing(c, parent.id, {FileName(p)}) # {}
               THEN [cat |-> c, stmt |-> FALSE]
               ELSE [cat |-> [insert_document(c, NewDocument(c, p, parent.id))
                                EXCEPT !.next = @ + 1],
                     stmt |-> TRUE]

RECURSIVE WalkFrom(_, _, _, _, _, _)
\* Walk the entries todo in order, n of them done; the store fails while
\* entry number faultAt is looked up (0: never), and a failed statement ends
\* the walk with an error.
WalkFrom(c, todo, root, alias, n, faultAt) ==
    IF todo = <<>> THEN [c EXCEPT !.ok = TRUE]
    ELSE IF n + 1 = faultAt THEN [c EXCEPT !.ok = FALSE]
    ELSE LET step == WalkEntry(c, Head(todo), root, alias)
         IN IF ~ step.cat.ok THEN step.cat
            ELSE WalkFrom(step.cat, Tail(todo), root, alias, n + 1, faultAt)

\* process_root_directory(db, path, alias): resolve the root, then register
\* every directory and document below it that the catalog lacks. It fails
\* when the root cannot be resolved or a statement fails; it deletes nothing.
process_root_directory(c, f, path, alias, faultAt) ==
    LET root == canonicalize(path, f)
        Wanted(p) == p \in f /\ Under(p, root)
    IN IF root = NoStr THEN [c EXCEPT !.ok = FALSE]
       ELSE WalkFrom(c, SelectSeq(WalkOrder, Wanted), root, alias, 0, faultAt)

\* DocumentData::read_from_disk succeeds when the file is there.
read_from_disk(path, f) == path \in f

\* ------------------------------------------------ the synchronization engine

Passes == {1, 2}

\* The alias/path maps a service is constructed with, each in the order its
\* HashMap iterates (fixed as long as the map is not modified).
PairA == [alias |-> "a", path |-> "/A"]
PairB == [alias |-> "b", path |-> "/B/."]
Configurations == {<<PairA, PairB>>, <<PairB, PairA>>}

\* All orders in which the rows of a query without ORDER BY can come back.
Orders(S) ==
    {s \in [1..Cardinality(S) -> S] : \A i, j \in DOMAIN s : i # j => s[i] # s[j]}

\* What an observer notes at the start of a pass.
NewObs(p) ==
    [pre_dirs |-> dirs, pre_docs |-> docs, fs0 |-> fs, touched |-> FALSE,
     fault |-> FALSE, failedAt |-> "none",
     survivors |-> {i \in DOMAIN directories :
                        canonicalize(directories[i].path, fs) # NoStr},
     probed |-> {}, removed |-> {}, walked |-> <<>>,
     ins_dirs |-> {}, ins_docs |-> {}, log |-> <<>>, cfg0 |-> directories]

NoObs ==
    [pre_dirs |-> {}, pre_docs |-> {}, fs0 |-> {}, touched |-> FALSE,
     fault |-> FALSE, failedAt |-> "none", survivors |-> {},
     probed |-> {}, removed |-> {}, walked |-> <<>>,
     ins_dirs |-> {}, ins_docs |-> {}, log |-> <<>>, cfg0 |-> <<>>]

NoLast == [valid |-> FALSE, dirs |-> {}, docs |-> {}]

\* No task mutates the configuration.
NoWriter == [state |-> "idle", blocked |-> FALSE]

\* The walker of a pass is in no tree.
NoWalk == [root |-> NoStr, todo |-> <<>>, known |-> [d \in DirPaths |-> NoId]]

\* The configured paths taken as they are written, not canonicalized.
FullPaths_Raw(ds, f) == {ds[i].path : i \in DOMAIN ds}

\* state.rs 38-48: the configured paths that canonicalize, canonical.
FullPaths(ds, f) ==
    {canonicalize(ds[i].path, f) : i \in DOMAIN ds} \ {NoStr}

\* `?` on an Err: sync() returns the error from where it stands.
Fail(p, where, injected) ==
    /\ pc' = [pc EXCEPT ![p] = "done"]
    /\ result' = [result EXCEPT ![p] = "err"]
    /\ obs' = [obs EXCEPT ![p].failedAt = where,
                          ![p].fault = @ \/ injected]

\* Where the loop over file_paths goes once rest is what remains.
AfterProbe(rest) == IF rest = <<>> THEN "walk" ELSE "probe"

\* A pass that drops its read guard once the paths are collected.
SyncStart_GuardDropped(p) ==
    /\ p \in allowed
    /\ pc[p] = "idle"
    /\ writer.state = "idle"
    /\ pc' = [pc EXCEPT ![p] = "trim"]
    /\ full_paths' = [full_paths EXCEPT ![p] = FullPaths(directories, fs)]
    /\ result' = [result EXCEPT ![p] = "none"]
    /\ obs' = [obs EXCEPT ![p] = NewObs(p)]
    /\ UNCHANGED <<fs, directories, dirs, docs, nextId, allowed, file_paths, cur,
                   idx, last, ret, calls, changes, rlock, writer, walk>>

\* A pass that lists the document paths first and trims no root.
SyncStart_ListFirst(p) ==
    /\ p \in allowed
    /\ pc[p] = "idle"
    /\ writer.state = "idle"
    /\ rlock' = rlock \cup {p}
    /\ pc' = [pc EXCEPT ![p] = "list"]
    /\ full_paths' = [full_paths EXCEPT ![p] = FullPaths(directories, fs)]
    /\ result' = [result EXCEPT ![p] = "none"]
    /\ obs' = [obs EXCEPT ![p] = NewObs(p)]
    /\ UNCHANGED <<fs, directories, dirs, docs, nextId, allowed, file_paths, cur,
                   idx, last, ret, calls, changes, writer, walk>>

\* state.rs 36-48: take the read lock, collect the paths, canonicalize them.
\* tokio's RwLock queues its waiters first come, first served: read() does
\* not pass a writer that waits or holds the lock.
SyncStart(p) ==
    /\ p \in allowed
    /\ pc[p] = "idle"
    /\ writer.state = "idle"
    /\ rlock' = rlock \cup {p}
    /\ pc' = [pc EXCEPT ![p] = "trim"]
    /\ full_paths' = [full_paths EXCEPT ![p] = FullPaths(directories, fs)]
    /\ result' = [result EXCEPT ![p] = "none"]
    /\ obs' = [obs EXCEPT ![p] = NewObs(p)]
    /\ UNCHANGED <<fs, directories, dirs, docs, nextId, allowed, file_paths, cur,
                   idx, last, ret, calls, changes, writer, walk>>

\* A pass that goes on to the listing without trimming the roots.
TrimRoots_Skipped(p) ==
    /\ pc[p] = "trim"
    /\ pc' = [pc EXCEPT ![p] = "list"]
    /\ UNCHANGED <<fs, directories, dirs, docs, nextId, allowed, full_paths,
                   file_paths, cur, idx, result, obs, last, ret, calls, changes, rlock, writer, walk>>

\* state.rs 51: self.db.trim_roots(&full_paths).await?
TrimRoots(p) ==
    /\ pc[p] = "trim"
    /\ \E ok \in BOOLEAN :
        IF ok
        THEN LET c == trim_roots(Cat(dirs, docs, nextId), full_paths[p])
             IN /\ dirs' = c.dirs
                /\ docs' = c.docs
                /\ pc' = [pc EXCEPT ![p] = "list"]
                /\ obs' = [obs EXCEPT ![p].log = Append(@, "trim")]
                /\ UNCHANGED result
        ELSE /\ Fail(p, "trim", TRUE)
             /\ UNCHANGED <<dirs, docs>>
    /\ UNCHANGED <<fs, directories, nextId, allowed, full_paths, file_paths, cur,
                   idx, last, ret, calls, changes, rlock, writer, walk>>

\* state.rs 54: let file_paths = self.db.get_all_file_paths().await?
ListPaths(p) ==
    /\ pc[p] = "list"
    /\ \E ok \in BOOLEAN :
        IF ok
        THEN \E order \in Orders(get_all_file_paths(Cat(dirs, docs, nextId))) :
                /\ file_paths' = [file_paths EXCEPT ![p] = order]
                /\ pc' = [pc EXCEPT ![p] = AfterProbe(order)]
                /\ idx' = [idx EXCEPT ![p] = 1]
                /\ obs' = [obs EXCEPT ![p].log = Append(@, "list")]
                /\ UNCHANGED result
        ELSE /\ Fail(p, "list", TRUE)
             /\ UNCHANGED <<file_paths, idx>>
    /\ UNCHANGED <<fs, directories, dirs, docs, nextId, allowed, full_paths, cur,
                   last, ret, calls, changes, rlock, writer, walk>>

\* state.rs 55-58: probe the next path; an Err selects it for removal.
ProbeFile(p) ==
    /\ pc[p] = "probe"
    /\ file_paths[p] # <<>>
    /\ LET path == Head(file_paths[p])
           rest == Tail(file_paths[p])
       IN /\ file_paths' = [file_paths EXCEPT ![p] = rest]
          /\ obs' = [obs EXCEPT ![p].probed = @ \cup {path},
                                ![p].log = Append(@, "probe")]
          /\ IF metadata_ok(path, fs)
             THEN /\ pc' = [pc EXCEPT ![p] = AfterProbe(rest)]
                  /\ UNCHANGED cur
             ELSE /\ pc' = [pc EXCEPT ![p] = "remove"]
                  /\ cur' = [cur EXCEPT ![p] = path]
    /\ UNCHANGED <<fs, directories, dirs, docs, nextId, allowed, full_paths, idx,
                   result, last, ret, calls, changes, rlock, writer, walk>>

\* A removal whose error is dropped: the loop goes on.
RemoveOrphan_Swallow(p) ==
    /\ pc[p] = "remove"
    /\ \E ok \in BOOLEAN :
        IF ok
        THEN LET c == remove_file_by_path(Cat(dirs, docs, nextId), cur[p])
             IN /\ docs' = c.docs
                /\ obs' = [obs EXCEPT ![p].removed = @ \cup (docs \ c.docs),
                                      ![p].log = Append(@, "remove")]
        ELSE /\ obs' = [obs EXCEPT ![p].failedAt = "remove", ![p].fault = TRUE]
             /\ UNCHANGED docs
    /\ pc' = [pc EXCEPT ![p] = AfterProbe(file_paths[p])]
    /\ cur' = [cur EXCEPT ![p] = NoStr]
    /\ UNCHANGED <<fs, directories, dirs, nextId, allowed, full_paths, file_paths,
                   idx, result, last, ret, calls, changes, rlock, writer, walk>>

\* state.rs 59: self.db.remove_file_by_path(&path).await?
RemoveOrphan(p) ==
    /\ pc[p] = "remove"
    /\ \E ok \in BOOLEAN :
        IF ok
        THEN LET c == remove_file_by_path(Cat(dirs, docs, nextId), cur[p])
             IN /\ docs' = c.docs
                /\ pc' = [pc EXCEPT ![p] = AfterProbe(file_paths[p])]
                /\ obs' = [obs EXCEPT ![p].removed = @ \cup (docs \ c.docs),
                                      ![p].log = Append(@, "remove")]
                /\ UNCHANGED result
        ELSE /\ Fail(p, "remove", TRUE)
             /\ UNCHANGED docs
    /\ cur' = [cur EXCEPT ![p] = NoStr]
    /\ UNCHANGED <<fs, directories, dirs, nextId, allowed, full_paths, file_paths,
                   idx, last, ret, calls, changes, rlock, writer, walk>>

\* A walk whose error is logged and the next root is walked all the same.
WalkRoot_Continue(p) ==
    /\ pc[p] = "walk"
    /\ idx[p] <= Len(directories)
    /\ \E faultAt \in 0..Cardinality(AllPaths) :
        LET pair == directories[idx[p]]
            c == process_root_directory(Cat(dirs, docs, nextId), fs,
                                        pair.path, pair.alias, faultAt)
        IN /\ c.next <= MaxId + 1
           /\ faultAt # 0 => ~ c.ok
           /\ dirs' = c.dirs
           /\ docs' = c.docs
           /\ nextId' = c.next
           /\ idx' = [idx EXCEPT ![p] = @ + 1]
           /\ obs' = IF c.ok
                     THEN [obs EXCEPT ![p].walked = Append(@, idx[p]),
                                      ![p].log = Append(@, "walk"),
                                      ![p].ins_dirs = @ \cup (c.dirs \ dirs),
                                      ![p].ins_docs = @ \cup (c.docs \ docs)]
                     ELSE [obs EXCEPT ![p].walked = Append(@, idx[p]),
                                      ![p].log = Append(@, "walk"),
                                      ![p].failedAt = "walk",
                                      ![p].fault = @ \/ faultAt # 0]
    /\ UNCHANGED <<fs, directories, allowed, full_paths, file_paths, cur, last,
                   ret, calls, changes, pc, result,
                   rlock, writer, walk>>

\* The entries one walk can visit: one per path of the universe.
MaxStatements == Cardinality(AllPaths)

\* state.rs 63-65: process_root_directory(&self.db, path, alias).await? for the
\* next pair of directories.iter()
WalkRoot(p) ==
    /\ pc[p] = "walk"
    /\ idx[p] <= Len(directories)
    /\ \E faultAt \in 0..MaxStatements :
        LET pair == directories[idx[p]]
            c == process_root_directory(Cat(dirs, docs, nextId), fs,
                                        pair.path, pair.alias, faultAt)
        IN /\ c.next <= MaxId + 1
           /\ faultAt # 0 => ~ c.ok
           /\ dirs' = c.dirs
           /\ docs' = c.docs
           /\ nextId' = c.next
           /\ IF c.ok
              THEN /\ idx' = [idx EXCEPT ![p] = @ + 1]
                   /\ obs' = [obs EXCEPT ![p].walked = Append(@, idx[p]),
                                         ![p].log = Append(@, "walk"),
                                         ![p].ins_dirs = @ \cup (c.dirs \ dirs),
                                         ![p].ins_docs = @ \cup (c.docs \ docs)]
                   /\ UNCHANGED <<pc, result>>
              ELSE /\ pc' = [pc EXCEPT ![p] = "done"]
                   /\ result' = [result EXCEPT ![p] = "err"]
                   /\ obs' = [obs EXCEPT ![p].walked = Append(@, idx[p]),
                                         ![p].log = Append(@, "walk"),
                                         ![p].failedAt = "walk",
                                         ![p].fault = @ \/ faultAt # 0]
                   /\ UNCHANGED idx
    /\ UNCHANGED <<fs, directories, allowed, full_paths, file_paths, cur, last,
                   ret, calls, changes, rlock, writer, walk>>

\* state.rs 67: Ok(())
SyncOk(p) ==
    /\ pc[p] = "walk"
    /\ idx[p] > Len(directories)
    /\ pc' = [pc EXCEPT ![p] = "done"]
    /\ result' = [result EXCEPT ![p] = "ok"]
    /\ UNCHANGED <<fs, directories, dirs, docs, nextId, allowed, full_paths,
                   file_paths, cur, idx, obs, last, ret, calls, changes, rlock, writer, walk>>

\* A return that keeps the read guard when the pass failed.
SyncReturn_KeepsGuard(p) ==
    /\ pc[p] = "done"
    /\ rlock' = IF result[p] = "err" THEN rlock ELSE rlock \ {p}
    /\ pc' = [pc EXCEPT ![p] = "idle"]
    /\ last' = IF obs[p].touched \/ obs[p].fault THEN NoLast
               ELSE [valid |-> TRUE, dirs |-> dirs, docs |-> docs]
    /\ obs' = [obs EXCEPT ![p] = NoObs]
    /\ full_paths' = [full_paths EXCEPT ![p] = {}]
    /\ file_paths' = [file_paths EXCEPT ![p] = <<>>]
    /\ idx' = [idx EXCEPT ![p] = 1]
    /\ result' = [result EXCEPT ![p] = "none"]
    /\ walk' = [walk EXCEPT ![p] = NoWalk]
    /\ UNCHANGED <<fs, directories, dirs, docs, nextId, allowed, cur, ret, calls,
                   changes, writer>>

\* sync() has returned: the read guard is dropped and the caller has the result.
SyncReturn(p) ==
    /\ pc[p] = "done"
    /\ rlock' = rlock \ {p}
    /\ pc' = [pc EXCEPT ![p] = "idle"]
    /\ last' = IF obs[p].touched \/ obs[p].fault THEN NoLast
               ELSE [valid |-> TRUE, dirs |-> dirs, docs |-> docs]
    /\ obs' = [obs EXCEPT ![p] = NoObs]
    /\ full_paths' = [full_paths EXCEPT ![p] = {}]
    /\ file_paths' = [file_paths EXCEPT ![p] = <<>>]
    /\ idx' = [idx EXCEPT ![p] = 1]
    /\ result' = [result EXCEPT ![p] = "none"]
    /\ walk' = [walk EXCEPT ![p] = NoWalk]
    /\ UNCHANGED <<fs, directories, dirs, docs, nextId, allowed, cur, ret, calls,
                   changes, writer>>

\* ------------------------------------------------------------ the filesystem

\* The filesystem changed under the passes in progress and since the last one.
Touch ==
    /\ changes < MaxFsChanges
    /\ changes' = changes + 1
    /\ obs' = [p \in Passes |-> IF pc[p] = "idle" THEN obs[p]
                                ELSE [obs[p] EXCEPT !.touched = TRUE]]
    /\ last' = NoLast

\* Something outside the program deletes a file or a directory tree.
FsRemove(path) ==
    /\ path \in fs
    /\ fs' = {q \in fs : ~ Under(q, path)}
    /\ Touch
    /\ UNCHANGED <<directories, dirs, docs, nextId, allowed, pc, full_paths,
                   file_paths, cur, idx, result, ret, calls, rlock, writer, walk>>

\* Something outside the program creates a file or a directory.
FsCreate(path) ==
    /\ path \notin fs
    /\ ParentOf(path) = "/" \/ ParentOf(path) \in fs
    /\ fs' = fs \cup {path}
    /\ Touch
    /\ UNCHANGED <<directories, dirs, docs, nextId, allowed, pc, full_paths,
                   file_paths, cur, idx, result, ret, calls, rlock, writer, walk>>

NoRet == [op |-> "none"]

\* DocumentService::new: no pass runs, nobody holds the lock.
InitService ==
    /\ pc = [p \in Passes |-> "idle"]
    /\ full_paths = [p \in Passes |-> {}]
    /\ file_paths = [p \in Passes |-> <<>>]
    /\ cur = [p \in Passes |-> NoStr]
    /\ idx = [p \in Passes |-> 1]
    /\ result = [p \in Passes |-> "none"]
    /\ obs = [p \in Passes |-> NoObs]
    /\ last = NoLast
    /\ ret = NoRet
    /\ calls = 0
    /\ changes = 0
    /\ rlock = {}
    /\ writer = NoWriter
    /\ walk = [p \in Passes |-> NoWalk]

\* The service after DocumentService::new over an empty catalog.
InitCommon ==
    /\ fs = AllPaths
    /\ dirs = {}
    /\ docs = {}
    /\ nextId = 1
    /\ InitService

Init ==
    /\ InitCommon
    /\ directories \in Configurations
    /\ allowed = {1}

Next ==
    \/ \E p \in Passes : SyncStart(p)
    \/ \E p \in Passes : TrimRoots(p)
    \/ \E p \in Passes : ListPaths(p)
    \/ \E p \in Passes : ProbeFile(p)
    \/ \E p \in Passes : RemoveOrphan(p)
    \/ \E p \in Passes : WalkRoot(p)
    \/ \E p \in Passes : SyncOk(p)
    \/ \E p \in Passes : SyncReturn(p)
    \/ \E path \in AllPaths : FsRemove(path)
    \/ \E path \in AllPaths : FsCreate(path)

\* One pass at a time over a filesystem that changes under it.
Spec == Init /\ [][Next]_vars

\* ------------------------------------------- the configuration and its lock

\* The maps a configuration mutation can leave: root b taken out, or put back.
WriterInputs == {<<PairA>>, <<PairA, PairB>>}

\* A task asks for exclusive access to directories (RwLock::write) and waits
\* in the queue of the lock.
WriterRequest ==
    /\ writer.state = "idle"
    /\ writer' = [state |-> "waiting", blocked |-> rlock # {}]
    /\ UNCHANGED <<fs, directories, dirs, docs, nextId, allowed, pc, full_paths,
                   file_paths, cur, idx, result, obs, last, ret, calls, changes,
                   rlock, walk>>

\* The write guard is granted once no read guard is held.
WriterAcquire ==
    /\ writer.state = "waiting"
    /\ rlock = {}
    /\ writer' = [writer EXCEPT !.state = "writing"]
    /\ UNCHANGED <<fs, directories, dirs, docs, nextId, allowed, pc, full_paths,
                   file_paths, cur, idx, result, obs, last, ret, calls, changes,
                   rlock, walk>>

\* The task changes the map and drops the write guard.
WriterRelease(cfg) ==
    /\ writer.state = "writing"
    /\ directories' = cfg
    /\ writer' = NoWriter
    /\ UNCHANGED <<fs, dirs, docs, nextId, allowed, pc, full_paths, file_paths,
                   cur, idx, result, obs, last, ret, calls, changes, rlock, walk>>

\* What the filesystem held when an earlier run of the service synchronized.
EarlierFs == {"/A", "/A/s", "/A/s/g.md"}

\* The catalog that run left.
Persisted ==
    process_root_directory(Cat({}, {}, 1), EarlierFs, PairA.path, PairA.alias, 0)

\* DocumentService::new over the catalog of the earlier run: since then
\* g.md was deleted, f.md and the directory /B were created.
InitPersisted ==
    /\ fs = {"/A", "/A/f.md", "/A/s", "/B"}
    /\ dirs = Persisted.dirs
    /\ docs = Persisted.docs
    /\ nextId = Persisted.next
    /\ InitService
    /\ directories = <<PairA, PairB>>
    /\ allowed = Passes

\* A step of pass p once it has begun.
PassStep(p) ==
    \/ TrimRoots(p)
    \/ ListPaths(p)
    \/ ProbeFile(p)
    \/ RemoveOrphan(p)
    \/ WalkRoot(p)
    \/ SyncOk(p)
    \/ SyncReturn(p)

NextLock ==
    \/ \E p \in Passes : SyncStart(p)
    \/ \E p \in Passes : TrimRoots(p)
    \/ \E p \in Passes : ListPaths(p)
    \/ \E p \in Passes : ProbeFile(p)
    \/ \E p \in Passes : RemoveOrphan(p)
    \/ \E p \in Passes : WalkRoot(p)
    \/ \E p \in Passes : SyncOk(p)
    \/ \E p \in Passes : SyncReturn(p)
    \/ WriterRequest
    \/ WriterAcquire
    \/ \E cfg \in WriterInputs : WriterRelease(cfg)

\* A step of a task that is under way: a pass that has begun, the lock
\* granting the write guard, the writer finishing its mutation.
Progress ==
    \/ \E p \in Passes : PassStep(p)
    \/ WriterAcquire
    \/ \E cfg \in WriterInputs : WriterRelease(cfg)

\* The runtime does not stop while a task can take a step: every call a pass
\* awaits returns and the lock grants a guard that can be granted. Whether
\* a pass begins or a writer asks for the lock is up to the callers.
FairLock == WF_vars(Progress)

\* Two passes and a configuration writer over the lock of directories.
SpecLock == InitPersisted /\ [][NextLock]_vars /\ FairLock

\* ------------------------------------- passes that interleave in the walk

\* The walker of pass p is done with the entry at the head of todo and goes
\* to the next one, or back to sync() for the next root.
Advance(p, known) ==
    LET rest == Tail(walk[p].todo)
    IN /\ walk' = [walk EXCEPT ![p] =
                      IF rest = <<>> THEN NoWalk
                      ELSE [root |-> walk[p].root, todo |-> rest, known |-> known]]
       /\ pc' = [pc EXCEPT ![p] = IF rest = <<>> THEN "walk" ELSE "visit"]
       /\ idx' = [idx EXCEPT ![p] = IF rest = <<>> THEN @ + 1 ELSE @]

\* The id of the directory that holds entry e, as the walker of pass p
\* learnt it on the way down.
ParentId(p, e) ==
    IF e = walk[p].root THEN NoId ELSE walk[p].known[ParentOf(e)]

\* state.rs 63-65, statement by statement: process_root_directory is called
\* for the next pair, resolves the root and finds what lies below it.
WalkBegin(p) ==
    /\ pc[p] = "walk"
    /\ idx[p] <= Len(directories)
    /\ LET root == canonicalize(directories[idx[p]].path, fs)
           Wanted(q) == q \in fs /\ Under(q, root)
       IN IF root = NoStr
          THEN /\ pc' = [pc EXCEPT ![p] = "done"]
               /\ result' = [result EXCEPT ![p] = "err"]
               /\ obs' = [obs EXCEPT ![p].walked = Append(@, idx[p]),
                                     ![p].log = Append(@, "walk"),
                                     ![p].failedAt = "walk"]
               /\ UNCHANGED walk
          ELSE /\ pc' = [pc EXCEPT ![p] = "visit"]
               /\ walk' = [walk EXCEPT ![p] =
                              [root |-> root, todo |-> SelectSeq(WalkOrder, Wanted),
                               known |-> NoWalk.known]]
               /\ obs' = [obs EXCEPT ![p].walked = Append(@, idx[p]),
                                     ![p].log = Append(@, "walk")]
               /\ UNCHANGED result
    /\ UNCHANGED <<fs, directories, dirs, docs, nextId, allowed, full_paths,
                   file_paths, cur, idx, last, ret, calls, changes, rlock, writer>>

\* The walker looks the next entry up: get_root_by_path for the root,
\* get_dir_by_path for a subdirectory, list_existing for a file. An entry
\* the catalog has is done; one it lacks is inserted by the next statement.
WalkVisit(p) ==
    /\ pc[p] = "visit"
    /\ LET e == Head(walk[p].todo)
           c == Cat(dirs, docs, nextId)
           found == IF e = walk[p].root THEN get_root_by_path(c, e)
                    ELSE IF e \in DirPaths THEN get_dir_by_path(c, e)
                    ELSE list_existing(c, ParentId(p, e), {FileName(e)})
       IN \E ok \in BOOLEAN :
            IF ~ ok
            THEN /\ Fail(p, "walk", TRUE)
                 /\ UNCHANGED <<walk, idx>>
            ELSE IF found = {}
            THEN /\ pc' = [pc EXCEPT ![p] = "insert"]
                 /\ UNCHANGED <<walk, idx, result, obs>>
            ELSE /\ Advance(p, IF e \in DirPaths
                               THEN [walk[p].known EXCEPT
                                        ![e] = (CHOOSE d \in found : TRUE).id]
                               ELSE walk[p].known)
                 /\ UNCHANGED <<result, obs>>
    /\ UNCHANGED <<fs, directories, dirs, docs, nextId, allowed, full_paths,
                   file_paths, cur, last, ret, calls, changes, rlock, writer>>

\* The walker inserts the entry it did not find: insert_directory for a
\* directory (the root under its alias), insert_document for a file.
WalkInsert(p) ==
    /\ pc[p] = "insert"
    /\ LET e == Head(walk[p].todo)
           c == Cat(dirs, docs, nextId)
           name == IF e = walk[p].root THEN directories[idx[p]].alias
                   ELSE FileName(e)
           after == IF e \in DirPaths
                    THEN insert_directory(c, e, name, ParentId(p, e))
                    ELSE [insert_document(c, NewDocument(c, e, ParentId(p, e)))
                             EXCEPT !.next = @ + 1]
       IN /\ after.next <= MaxId + 1
          /\ \E ok \in BOOLEAN :
               IF ~ ok \/ ~ after.ok
               THEN /\ Fail(p, "walk", ~ ok)
                    /\ UNCHANGED <<dirs, docs, nextId, walk, idx>>
               ELSE /\ dirs' = after.dirs
                    /\ docs' = after.docs
                    /\ nextId' = after.next
                    /\ obs' = [obs EXCEPT ![p].ins_dirs = @ \cup (after.dirs \ dirs),
                                          ![p].ins_docs = @ \cup (after.docs \ docs)]
                    /\ Advance(p, IF e \in DirPaths
                                  THEN [walk[p].known EXCEPT ![e] = nextId]
                                  ELSE walk[p].known)
                    /\ UNCHANGED result
    /\ UNCHANGED <<fs, directories, allowed, full_paths, file_paths, cur, last,
                   ret, calls, changes, rlock, writer>>

NextConc ==
    \/ \E p \in Passes : SyncStart(p)
    \/ \E p \in Passes : TrimRoots(p)
    \/ \E p \in Passes : ListPaths(p)
    \/ \E p \in Passes : ProbeFile(p)
    \/ \E p \in Passes : RemoveOrphan(p)
    \/ \E p \in Passes : WalkBegin(p)
    \/ \E p \in Passes : WalkVisit(p)
    \/ \E p \in Passes : WalkInsert(p)
    \/ \E p \in Passes : SyncOk(p)
    \/ \E p \in Passes : SyncReturn(p)

\* Two passes whose store statements interleave one by one.
SpecConc == InitPersisted /\ [][NextConc]_vars

\* ------------------------------------------------------------ the resolver

\* The strings callers resolve: spellings of two identifiers and plain aliases.
IdStrings == {"0a", "0A", "0b", "{0b}", "note", "intro"}

\* Uuid::from_str: upper case and braces are accepted; NoId when it fails.
ParseUuid(s) ==
    CASE s \in {"0a", "0A"} -> 1
      [] s \in {"0b", "{0b}"} -> 2
      [] OTHER -> NoId

\* Uuid::to_string: the one canonical spelling.
UuidToString(u) == IF u = 1 THEN "0a" ELSE "0b"

\* DocumentDb::get_doc_path
get_doc_path(c, uuid) == get_document_path(c, uuid)

\* DocumentDb::get_doc_id_path_by_custom_id (the path; NoStr: no row)
get_doc_id_path_by_custom_id(c, custom_id) ==
    get_document_path_by_custom_id(c, custom_id)

NotFound(id) == [kind |-> "NotFound", carried |-> id, disk |-> FALSE]
StoreError == [kind |-> "StoreError", carried |-> NoStr, disk |-> FALSE]

\* The outcome of reading the document at path from disk.
Loaded(path, f) ==
    [kind |-> IF read_from_disk(path, f) THEN "Ok" ELSE "IoError",
     carried |-> NoStr, disk |-> TRUE, path |-> path]

\* A resolver that reports the identifier it parsed, not the string it got.
read_file_normalised(c, f, id, lookupOk) ==
    LET uuid == ParseUuid(id)
        path == IF uuid = NoId THEN get_doc_id_path_by_custom_id(c, id)
                ELSE get_doc_path(c, uuid)
    IN IF ~ lookupOk THEN StoreError
       ELSE IF path # NoStr THEN Loaded(path, f)
       ELSE IF uuid = NoId THEN NotFound(id)
       ELSE NotFound(UuidToString(uuid))

\* A resolver that tries the custom id when the parsed id matches nothing.
read_file_fallback(c, f, id, lookupOk) ==
    LET uuid == ParseUuid(id)
        by_id == IF uuid = NoId THEN NoStr ELSE get_doc_path(c, uuid)
        path == IF by_id # NoStr THEN by_id
                ELSE get_doc_id_path_by_custom_id(c, id)
    IN IF ~ lookupOk THEN StoreError
       ELSE IF path = NoStr THEN NotFound(id)
       ELSE Loaded(path, f)

\* state.rs 71-91: DocumentService::read_file
read_file(c, f, id, lookupOk) ==
    LET uuid == ParseUuid(id)
    IN IF uuid = NoId THEN
           IF ~ lookupOk THEN StoreError
           ELSE LET path == get_doc_id_path_by_custom_id(c, id)
                IN IF path = NoStr THEN NotFound(id) ELSE Loaded(path, f)
       ELSE
           IF ~ lookupOk THEN StoreError
           ELSE LET path == get_doc_path(c, uuid)
                IN IF path = NoStr THEN NotFound(id) ELSE Loaded(path, f)

\* ------------------------------------------- calls on the store and resolver

\* The values callers pass for a directory.
NameInputs == {"a", "s"}
ParentInputs == {NoId, 1, 2, 3}

\* The documents callers pass, before their directory is chosen: they share
\* ids, paths and custom ids in every combination.
DocInputs ==
    {[id |-> 1, file_name |-> "f.md", path |-> "/A/f.md", title |-> "F",
      custom_id |-> "note", created_at |-> 0, updated_at |-> 0],
     [id |-> 1, file_name |-> "f.md", path |-> "/A/f.md", title |-> "F2",
      custom_id |-> "0a", created_at |-> 1, updated_at |-> 1],
     [id |-> 1, file_name |-> "g.md", path |-> "/A/s/g.md", title |-> NoStr,
      custom_id |-> NoStr, created_at |-> 1, updated_at |-> 1],
     [id |-> 2, file_name |-> "f.md", path |-> "/A/f.md", title |-> "G",
      custom_id |-> NoStr, created_at |-> 1, updated_at |-> 1],
     [id |-> 2, file_name |-> "g.md", path |-> "/A/s/g.md", title |-> "G",
      custom_id |-> "note", created_at |-> 1, updated_at |-> 1],
     [id |-> 2, file_name |-> "g.md", path |-> "/A/s/g.md", title |-> NoStr,
      custom_id |-> NoStr, created_at |-> 0, updated_at |-> 1],
     [id |-> 2, file_name |-> "x.md", path |-> "/gone.md", title |-> NoStr,
      custom_id |-> "0a", created_at |-> 0, updated_at |-> 0]}
DirectoryInputs == {1, 2}

\* The document of DocInputs placed in a directory.
InDirectory(doc, directory) ==
    [id |-> doc.id, file_name |-> doc.file_name, directory |-> directory,
     path |-> doc.path, title |-> doc.title, custom_id |-> doc.custom_id,
     created_at |-> doc.created_at, updated_at |-> doc.updated_at]

\* A call changes the tables and leaves its outcome in ret.
Called(c, r) ==
    /\ calls < MaxCalls
    /\ calls' = calls + 1
    /\ dirs' = c.dirs
    /\ docs' = c.docs
    /\ nextId' = c.next
    /\ ret' = r
    /\ UNCHANGED <<fs, directories, allowed, pc, full_paths, file_paths, cur, idx,
                   result, obs, last, changes, rlock, writer, walk>>

\* A caller inserts a directory.
CallInsertDirectory(path, name, parent) ==
    LET c == insert_directory(Cat(dirs, docs, nextId), path, name, parent)
    IN /\ c.next <= MaxId + 1
       /\ Called(c, [op |-> "insert_directory", path |-> path, name |-> name,
                     parent |-> parent, ok |-> c.ok, row |-> c.dirs \ dirs,
                     pre_dirs |-> dirs, pre_docs |-> docs])

\* A caller inserts a document.
CallInsertDocument(doc) ==
    LET c == insert_document(Cat(dirs, docs, nextId), doc)
    IN Called(c, [op |-> "insert_document", doc |-> doc, ok |-> c.ok,
                  pre_dirs |-> dirs, pre_docs |-> docs])

\* A caller removes a directory.
CallRemoveDir(path) ==
    LET c == remove_dir(Cat(dirs, docs, nextId), path)
    IN Called(c, [op |-> "remove_dir", path |-> path, ok |-> c.ok,
                  pre_dirs |-> dirs, pre_docs |-> docs])

\* A caller removes a document.
CallRemoveFile(path) ==
    LET c == remove_file(Cat(dirs, docs, nextId), path)
    IN Called(c, [op |-> "remove_file", path |-> path, ok |-> c.ok,
                  pre_dirs |-> dirs, pre_docs |-> docs])

\* A caller resolves a string; the lookup succeeds or the store fails.
CallReadFile(id, lookupOk) ==
    LET r == read_file(Cat(dirs, docs, nextId), fs, id, lookupOk)
    IN Called(Cat(dirs, docs, nextId),
              [op |-> "read_file", id |-> id, lookup_ok |-> lookupOk,
               kind |-> r.kind, carried |-> r.carried, disk |-> r.disk,
               path |-> IF r.disk THEN r.path ELSE NoStr])

\* A caller lists the roots with their entries and gets one of the orders
\* the query allows.
CallListRootsWithEntries ==
    \E rows \in list_roots_with_entries(Cat(dirs, docs, nextId)) :
        Called(Cat(dirs, docs, nextId),
               [op |-> "list_roots_with_entries", rows |-> rows])

\* The sets of paths callers trim the roots down to.
TrimInputs == {{}, {"/A"}, {"/A", "/B"}}

\* A caller trims the roots down to the given paths.
CallTrimRoots(paths) ==
    LET c == trim_roots(Cat(dirs, docs, nextId), paths)
    IN Called(c, [op |-> "trim_roots", paths |-> paths, ok |-> c.ok,
                  pre_dirs |-> dirs, pre_docs |-> docs])

InitStore ==
    /\ InitCommon
    /\ directories = <<PairA, PairB>>
    /\ allowed = {}

NextStore ==
    \/ \E path \in DirPaths, name \in NameInputs, parent \in ParentInputs :
           CallInsertDirectory(path, name, parent)
    \/ \E doc \in DocInputs, directory \in DirectoryInputs :
           CallInsertDocument(InDirectory(doc, directory))
    \/ \E path \in DirPaths : CallRemoveDir(path)
    \/ \E path \in FilePaths : CallRemoveFile(path)
    \/ \E id \in IdStrings, lookupOk \in BOOLEAN : CallReadFile(id, lookupOk)
    \/ CallListRootsWithEntries
    \/ \E paths \in TrimInputs : CallTrimRoots(paths)

\* Callers using the store and the resolver directly, no pass running.
SpecStore == InitStore /\ [][NextStore]_vars

\* ------------------------------------------------- properties of a pass

\* The canonical paths step 2 of pass p produced, from what the observer saw.
CanonAtStart(p) ==
    {canonicalize(directories[i].path, obs[p].fs0) : i \in DOMAIN directories}
        \ {NoStr}

\* The documents of the catalog, as pass p found it, whose file was missing.
Orphans(p) == {e \in obs[p].pre_docs : e.path \notin obs[p].fs0}

\* Everything below the configured roots had its row when pass p began.
FullyRegistered(p) ==
    \A q \in obs[p].fs0 :
        (\E r \in CanonAtStart(p) : Under(q, r)) =>
            IF q \in DirPaths THEN \E d \in obs[p].pre_dirs : d.path = q
            ELSE \E e \in obs[p].pre_docs : e.path = q

\* The case of orphan cleanup: one document lost its file, nothing else differs.
OneOrphan(p) ==
    /\ Cardinality(Orphans(p)) = 1
    /\ obs[p].survivors = DOMAIN directories
    /\ FullyRegistered(p)
    /\ ~ obs[p].touched

\* C1: a successful pass that starts with exactly one document whose file is
\* missing, all roots resolvable and everything else registered, over a
\* filesystem that stays as it is, removes that document's row and leaves
\* every other directory and document row as it was.
C1_OrphanCleanup ==
    \A p \in Passes :
        (pc[p] = "done" /\ result[p] = "ok" /\ OneOrphan(p)) =>
            /\ dirs = obs[p].pre_dirs
            /\ docs = obs[p].pre_docs \ Orphans(p)

C1_Witness ==
    \E p \in Passes :
        /\ pc[p] = "done" /\ result[p] = "ok" /\ OneOrphan(p)
        /\ Cardinality(obs[p].pre_docs) = 2
        /\ Cardinality(docs) = 1

\* C2: a pass that ends after an earlier pass, with no store fault in either
\* and no change to the filesystem since the earlier one began, leaves the
\* catalog row for row as the earlier pass left it.
C2_SyncIdempotent ==
    \A p \in Passes :
        (pc[p] = "done" /\ last.valid /\ ~ obs[p].touched /\ ~ obs[p].fault) =>
            /\ dirs = last.dirs
            /\ docs = last.docs

C2_Witness ==
    \E p \in Passes :
        /\ pc[p] = "done" /\ last.valid /\ ~ obs[p].touched /\ ~ obs[p].fault
        /\ result[p] = "ok"
        /\ Cardinality(docs) = 2
        /\ Cardinality(dirs) = 3

\* The indices of the pairs the walker was invoked for in pass p.
Walked(p) == {obs[p].walked[i] : i \in DOMAIN obs[p].walked}

\* C3: the walker is invoked only for the pairs whose path resolved in step 2,
\* and a pass in which no store call failed does not return an error.
C3_WalkerOnlyForSurvivors ==
    \A p \in Passes :
        /\ Walked(p) \subseteq obs[p].survivors
        /\ (pc[p] = "done" /\ ~ obs[p].touched /\ ~ obs[p].fault) => result[p] = "ok"

\* C4: right after the root trim the catalog holds no root whose path is
\* outside the canonical paths of step 2, and every root inside them is
\* still there, unchanged.
C4_RootTrim ==
    \A p \in Passes :
        pc[p] = "list" =>
            /\ \A d \in dirs : d.parent = NoId => d.path \in CanonAtStart(p)
            /\ \A d \in obs[p].pre_dirs :
                   (d.parent = NoId /\ d.path \in CanonAtStart(p)) => d \in dirs

C4_Witness ==
    \E p \in Passes :
        /\ pc[p] = "list"
        /\ \E d \in obs[p].pre_dirs : d.parent = NoId /\ d \notin dirs
        /\ \E d \in obs[p].pre_dirs : d.parent = NoId /\ d \in dirs

\* The paths pass p listed and has not probed.
Unprobed(p) == {file_paths[p][i] : i \in DOMAIN file_paths[p]}

\* C7: a failed probe does not end the pass, it selects the path for removal;
\* a failed removal ends the pass with the error: no listed path is probed or
\* removed after it, the walker is invoked for no root, and the rows removed
\* before it stay removed.
C7_RemovalFailureAborts ==
    \A p \in Passes :
        /\ pc[p] = "remove" => (result[p] = "none" /\ cur[p] \in obs[p].probed)
        /\ obs[p].failedAt = "remove" =>
            /\ pc[p] = "done"
            /\ result[p] = "err"
            /\ obs[p].walked = <<>>
            /\ obs[p].ins_dirs = {} /\ obs[p].ins_docs = {}
            /\ Unprobed(p) \cap obs[p].probed = {}
            /\ {e \in docs : e.path \in Unprobed(p)}
                   = {e \in obs[p].pre_docs : e.path \in Unprobed(p)}
            /\ obs[p].removed \cap docs = {}
            /\ docs \subseteq obs[p].pre_docs

C7_Witness ==
    \E p \in Passes :
        /\ pc[p] = "done"
        /\ obs[p].failedAt = "remove"
        /\ obs[p].removed # {}

\* C8: a failed walk ends the pass with the error: the walker was invoked for
\* the roots up to the failing one and for none after it, and what the pass
\* changed before (roots trimmed, orphans removed, rows inserted for earlier
\* roots) is still in place.
C8_WalkFailureAborts ==
    \A p \in Passes :
        obs[p].failedAt = "walk" =>
            /\ pc[p] = "done"
            /\ result[p] = "err"
            /\ obs[p].walked = [i \in 1..idx[p] |-> i]
            /\ \A d \in obs[p].pre_dirs :
                   (d.parent = NoId /\ d.path \notin CanonAtStart(p)) => d \notin dirs
            /\ obs[p].removed \cap docs = {}
            /\ obs[p].ins_dirs \subseteq dirs
            /\ obs[p].ins_docs \subseteq docs

C8_Witness ==
    \E p \in Passes :
        /\ pc[p] = "done"
        /\ obs[p].failedAt = "walk"
        /\ idx[p] < Len(directories)
        /\ obs[p].removed # {}

\* The other case of C8: the second root fails after the first one inserted rows.
C8_WitnessLater ==
    \E p \in Passes :
        /\ pc[p] = "done"
        /\ obs[p].failedAt = "walk"
        /\ idx[p] = Len(directories)
        /\ obs[p].ins_dirs # {}
        /\ obs[p].removed # {}

\* ------------------------------------------- properties of store calls

\* C5: insert_document with the id of an existing document succeeds, adds no
\* row and leaves the existing row, and every other row, as it was.
C5_InsertDocumentIdempotent ==
    (ret.op = "insert_document" /\ \E e \in ret.pre_docs : e.id = ret.doc.id) =>
        /\ ret.ok
        /\ docs = ret.pre_docs
        /\ dirs = ret.pre_dirs

C5_Witness ==
    /\ ret.op = "insert_document"
    /\ ret.ok
    /\ \E e \in docs :
        /\ e.id = ret.doc.id
        /\ e.title # ret.doc.title
        /\ e.custom_id # ret.doc.custom_id
        /\ e.created_at # ret.doc.created_at
        /\ e.updated_at # ret.doc.updated_at

\* No document matches the string the way read_file looks it up.
NoMatchingRow(id) ==
    IF ParseUuid(id) # NoId
    THEN ~ \E e \in docs : e.id = ParseUuid(id)
    ELSE ~ \E e \in docs : e.custom_id = id

\* C6: when the lookup read_file makes for a string finds no row, read_file
\* fails with NotFound carrying that very string and reads nothing from disk.
C6_NotFoundCarriesInput ==
    (ret.op = "read_file" /\ ret.lookup_ok /\ NoMatchingRow(ret.id)) =>
        /\ ret.kind = "NotFound"
        /\ ret.carried = ret.id
        /\ ~ ret.disk

C6_Witness ==
    /\ ret.op = "read_file"
    /\ ret.kind = "NotFound"
    /\ ParseUuid(ret.id) # NoId
    /\ UuidToString(ParseUuid(ret.id)) # ret.id
    /\ docs # {}

\* C9: insert_directory fails and changes nothing when the path is taken or
\* the parent given does not exist; otherwise it adds exactly one row, with
\* that path, name and parent, and get_dir_by_path(path) then returns it.
C9_InsertDirectory ==
    ret.op = "insert_directory" =>
        IF \/ \E d \in ret.pre_dirs : d.path = ret.path
           \/ ret.parent # NoId /\ ~ \E d \in ret.pre_dirs : d.id = ret.parent
        THEN /\ ~ ret.ok
             /\ dirs = ret.pre_dirs
             /\ docs = ret.pre_docs
        ELSE /\ ret.ok
             /\ docs = ret.pre_docs
             /\ \E row \in dirs \ ret.pre_dirs :
                    /\ dirs = ret.pre_dirs \cup {row}
                    /\ row.path = ret.path
                    /\ row.name = ret.name
                    /\ row.parent = ret.parent
                    /\ \A d \in ret.pre_dirs : d.id # row.id
                    /\ get_dir_by_path(Cat(dirs, docs, nextId), ret.path) = {row}

C9_Witness ==
    /\ ret.op = "insert_directory"
    /\ ret.ok
    /\ ret.parent # NoId
    /\ Cardinality(dirs) = 2

RECURSIVE ReachesRoot(_, _, _)
\* Following parent from the directory with this id reaches a root in at
\* most fuel steps.
ReachesRoot(ds, id, fuel) ==
    IF fuel = 0 \/ ~ \E d \in ds : d.id = id THEN FALSE
    ELSE LET d == CHOOSE x \in ds : x.id = id
         IN d.parent = NoId \/ ReachesRoot(ds, d.parent, fuel - 1)

\* C10: from every directory the parent references lead to a root in
\* finitely many steps; no directory is its own ancestor.
C10_Forest ==
    \A d \in dirs : ReachesRoot(dirs, d.id, Cardinality(dirs))

C10_Witness ==
    /\ ret.op = "insert_directory"
    /\ ~ ret.ok
    /\ \E d, e \in dirs : d.parent = e.id /\ e.parent # NoId

\* The rows a call of list_roots_with_entries returned, as a set.
ReturnedRows == {ret.rows[i] : i \in DOMAIN ret.rows}

\* The directories of the catalog that are roots.
Roots == {d \in dirs : d.parent = NoId}

C12_RootsWithEntries ==
    ret.op = "list_roots_with_entries" =>
        /\ Len(ret.rows) = Cardinality(ReturnedRows)
        /\ \A d \in dirs :
               (d.parent = NoId \/ \E r \in Roots : d.parent = r.id) =>
                   /\ DirectoryEntryOf(d) \in ReturnedRows
                   /\ Cardinality({i \in DOMAIN ret.rows :
                          ret.rows[i].id = d.id /\ ret.rows[i].type = "d"}) = 1
        /\ \A e \in docs :
               (\E r \in Roots : e.directory = r.id) =>
                   /\ DocumentEntryOf(e) \in ReturnedRows
                   /\ Cardinality({i \in DOMAIN ret.rows :
                          ret.rows[i].id = e.id /\ ret.rows[i].type = "f"}) = 1
        /\ \A x \in ReturnedRows :
               /\ x.parent = NoId \/ \E r \in Roots : x.parent = r.id
               /\ IF x.type = "d"
                  THEN \E d \in dirs : x = DirectoryEntryOf(d)
                  ELSE \E e \in docs : x = DocumentEntryOf(e)

C12_Witness ==
    /\ ret.op = "list_roots_with_entries"
    /\ Len(ret.rows) = 2
    /\ \E x \in ReturnedRows : x.parent # NoId
    /\ \E e \in docs : \E d \in dirs : e.directory = d.id /\ d.parent # NoId

\* C16: in every catalog the store calls and root trims reach, the parent of
\* a directory, where set, is the id of a directory row and the directory of
\* a document is the id of a directory row, also after a directory that had
\* subdirectories or documents was removed.
C16_ReferentialIntegrity ==
    /\ \A d \in dirs : d.parent # NoId => \E x \in dirs : x.id = d.parent
    /\ \A e \in docs : \E x \in dirs : x.id = e.directory

C16_Witness ==
    /\ ret.op = "remove_dir"
    /\ \E d \in ret.pre_dirs \ dirs :
        /\ d.path = ret.path
        /\ \E x \in ret.pre_dirs : x.parent = d.id
    /\ ret.pre_docs \ docs # {}

\* The other case of C16: a root trim removes a root that had a subdirectory.
C16_WitnessTrim ==
    /\ ret.op = "trim_roots"
    /\ \E d \in ret.pre_dirs \ dirs :
        /\ d.parent = NoId
        /\ \E x \in ret.pre_dirs : x.parent = d.id

\* C18: insert_document with an id no document has, but with the path or the
\* non-null custom id of an existing document, succeeds, adds no row and
\* leaves every row as it was: afterwards no document has the id passed.
C18_ConflictIsNoError ==
    (/\ ret.op = "insert_document"
     /\ \A e \in ret.pre_docs : e.id # ret.doc.id
     /\ \E e \in ret.pre_docs :
            \/ e.path = ret.doc.path
            \/ ret.doc.custom_id # NoStr /\ e.custom_id = ret.doc.custom_id) =>
        /\ ret.ok
        /\ docs = ret.pre_docs
        /\ dirs = ret.pre_dirs
        /\ \A e \in docs : e.id # ret.doc.id

C18_Witness ==
    /\ ret.op = "insert_document"
    /\ ret.ok
    /\ \A e \in docs : e.id # ret.doc.id
    /\ \E e \in docs :
        /\ e.custom_id = ret.doc.custom_id
        /\ e.custom_id # NoStr
        /\ e.path # ret.doc.path

\* C19: read_file looks a string that parses as an identifier up by id only,
\* so it reads the document of that id or fails with NotFound, whatever
\* document has the string as custom id; a string that does not parse is
\* looked up by custom id only.
C19_NoFallback ==
    (ret.op = "read_file" /\ ret.lookup_ok) =>
        LET uuid == ParseUuid(ret.id)
            hits == IF uuid # NoId THEN {e \in docs : e.id = uuid}
                    ELSE {e \in docs : e.custom_id = ret.id}
        IN IF hits = {} THEN ret.kind = "NotFound" /\ ~ ret.disk
           ELSE ret.disk /\ \E e \in hits : ret.path = e.path

C19_Witness ==
    /\ ret.op = "read_file"
    /\ ret.kind = "NotFound"
    /\ ParseUuid(ret.id) # NoId
    /\ \E e \in docs : e.custom_id = ret.id

\* The other case of C19: a string that parses is also a custom id, and the
\* document read is the one with the id.
C19_WitnessById ==
    /\ ret.op = "read_file"
    /\ ret.disk
    /\ \E e, x \in docs :
        e.id = ParseUuid(ret.id) /\ x.custom_id = ret.id /\ x.path # ret.path

\* ------------------------------------- what a pass leaves and in what order

\* C14: after a pass that succeeded over a filesystem that stayed as it was,
\* every row of the catalog, directory rows too, has a path that exists.
C14_EveryRowBacked ==
    \A p \in Passes :
        (pc[p] = "done" /\ result[p] = "ok" /\ ~ obs[p].touched) =>
            /\ \A e \in docs : e.path \in fs
            /\ \A d \in dirs : d.path \in fs

\* Where a step stands in the order of sync().
StepRank(step) ==
    CASE step = "trim" -> 1
      [] step = "list" -> 2
      [] step \in {"probe", "remove"} -> 3
      [] step = "walk" -> 4

\* C15: the steps of one pass come in the order of sync(): the root trim
\* first, then the listing of the document paths, then every probe and
\* removal, then the walks; so no walk, and with it no insertion, comes
\* before a deletion of the same pass.
C15_StepsInOrder ==
    \A p \in Passes :
        LET log == obs[p].log
        IN /\ \A i, j \in DOMAIN log : i < j => StepRank(log[i]) <= StepRank(log[j])
           /\ \A i \in DOMAIN log :
                  /\ log[i] = "trim" <=> i = 1
                  /\ log[i] = "list" <=> i = 2
                  /\ log[i] = "remove" => log[i - 1] = "probe"
           /\ (obs[p].ins_dirs # {} \/ obs[p].ins_docs # {}) =>
                  /\ file_paths[p] = <<>>
                  /\ pc[p] \in {"walk", "done"}

C15_Witness ==
    \E p \in Passes :
        /\ pc[p] = "done"
        /\ result[p] = "ok"
        /\ obs[p].removed # {}
        /\ obs[p].ins_docs # {}
        /\ Len(obs[p].log) >= 6

\* ------------------------------------------- the lock of the configuration

\* C13: no configuration mutation is in progress while a pass holds a read
\* guard; a pass holds its guard from its first step until it returns, two
\* passes can hold theirs at once, and the map a pass iterates in step 5 is
\* the map it read in step 1.
C13_LockAsymmetry ==
    /\ writer.state = "writing" => rlock = {}
    /\ \A p \in Passes :
        /\ pc[p] # "idle" <=> p \in rlock
        /\ pc[p] # "idle" =>
            /\ directories = obs[p].cfg0
            /\ \A i \in DOMAIN obs[p].walked :
                   obs[p].walked[i] \in DOMAIN obs[p].cfg0

C13_Witness ==
    /\ rlock = Passes
    /\ writer.state = "waiting"
    /\ \A p \in Passes : obs[p].walked # <<>>
    /\ directories = <<PairA>>

\* C20: a pass that has returned holds no read guard, however it ended, and
\* a writer that waits for exclusive access obtains it.
C20_WriterProceeds ==
    /\ [](\A p \in Passes : pc[p] = "idle" => p \notin rlock)
    /\ (writer.state = "waiting") ~> (writer.state = "writing")

C20_Witness ==
    /\ writer.state = "writing"
    /\ writer.blocked
    /\ nextId > Persisted.next

\* ------------------------------------------------- passes that interleave

\* C17: however the statements of two passes interleave, no two directories
\* share a path, no two documents share a path and no two documents share a
\* custom id that is not null.
C17_Uniqueness ==
    /\ \A d, x \in dirs : d.path = x.path => d = x
    /\ \A e, x \in docs : e.path = x.path => e = x
    /\ \A e, x \in docs : (e.custom_id # NoStr /\ e.custom_id = x.custom_id) => e = x

C17_Witness ==
    \E p, q \in Passes :
        /\ p # q
        /\ pc[p] = "done" /\ pc[q] = "done"
        /\ obs[p].failedAt = "walk" /\ ~ obs[p].fault
        /\ \E d \in obs[q].ins_dirs : d.path = "/B"
        /\ obs[q].ins_docs # {}
        /\ obs[p].removed # {}

====
